---------------------------- MODULE Spec2Model ----------------------------
(***************************************************************************)
(* Model of the two harvesters of the repository.                          *)
(*                                                                         *)
(*   fetch_publications.py  chained mode: fetch_records (retry with        *)
(*                          backoff), extract_records,                     *)
(*                          harvest_records_async, main                    *)
(*   fetch_faculties.py     finite mode: get_total_pages,                  *)
(*                          fetch_and_parse_page, the __main__ script      *)
(*                                                                         *)
(* The remote source is the environment: what it answers to a request is   *)
(* chosen at the request (\E outcome); the shape of the data it serves     *)
(* (length of the token chain, records per batch or page) is chosen in     *)
(* Init.                                                                   *)
(***************************************************************************)
EXTENDS Integers, Sequences, FiniteSets, TLC

VARIABLES
    \* ---- environment of the chained harvester
    chainLen,            \* number of batches the OAI-PMH source serves
    batchSize,           \* batchSize[b]: records in batch b, b \in 0..chainLen-1
    \* ---- fetch_publications.py
    max_concurrent,      \* argument of harvest_records_async
    hpc,                 \* position of harvest_records_async / main
    first,               \* the fetch_records call awaited for the first batch
    tasks,               \* list of asyncio tasks, each a fetch_records call
    resumption_tokens,   \* pending-token queue
    all_records,         \* accumulator
    returned,            \* value returned by harvest_records_async
    pub_csv,             \* rows written by save_to_csv, -1: no file written
    nreq,                \* history: network requests made for each unit
    ncalls,              \* history: fetch_records calls started for each unit
    unit_result,         \* history: kind of value fetch_records returned
                         \*          for each unit, "" while it has not
    faulted,             \* history: some request was not answered by a
                         \*          well-formed body
    drained,             \* history: tasks consumed by the post-loop gather
    dropped,             \* history: tokens extracted and then discarded
    \* ---- environment of the finite harvester
    pageSize,            \* records every result page carries
    \* ---- fetch_faculties.py
    fpc,                 \* position of the __main__ script
    total_pages,         \* result of get_total_pages
    futures,             \* futures[p]: the future of page p (future_to_page)
    all_publications_data,
    completed_pages,
    pbar_n,              \* tqdm's counter pbar.n
    fac_csv,             \* rows written by df.to_csv, -1: no file written
    probe,               \* history: what the request of get_total_pages met,
                         \*          "" before it
    page_gets,           \* history: requests.get calls made for each page
                         \*          index, by get_total_pages and by
                         \*          fetch_and_parse_page
    eta_divisor          \* the divisor of the last eta_seconds, 0 before it

pubVars == <<chainLen, batchSize, max_concurrent, hpc, first, tasks,
             resumption_tokens, all_records, returned, pub_csv, nreq,
             ncalls, unit_result, faulted, drained, dropped>>
facVars == <<pageSize, fpc, total_pages, futures, all_publications_data,
             completed_pages, pbar_n, fac_csv, probe, page_gets,
             eta_divisor>>
vars == <<pubVars, facVars>>

---------------------------------------------------------------------------
(* Bounds of the model *)

MaxChain == 3        \* longest token chain served
MaxRecs == 1         \* most records in one batch / page
MaxConcurrent == 2   \* largest concurrency ceiling tried
MaxRetry == 7        \* largest retry_count tried for fetch_records alone
MaxPages == 3        \* largest page count the pager announces
MaxEtaPages == 34    \* largest page count tried for the ETA alone

(* Program constants *)

DefaultRetryCount == 3    \* fetch_records(session, params, retry_count=3)
BackoffCap == 30          \* min(2 ** i, 30)
MAX_WORKERS == 32

---------------------------------------------------------------------------
(* Values *)

NoToken == 0     \* Python None for a token; tokens are 1, 2, ...
NoneResult == [kind |-> "none", records |-> <<>>, token |-> NoToken]

Min(a, b) == IF a <= b THEN a ELSE b

RECURSIVE Pow2(_)
Pow2(i) == IF i <= 0 THEN 1 ELSE 2 * Pow2(i - 1)

\* Python truthiness of the value fetch_records returns: None and "" are false
Truthy(text) == text.kind \notin {"none", "empty"}

\* What the remote source can answer to one request
Transient == {"busy503", "timeout", "error"}
Failures == Transient \cup {"http4xx"}
Bodies == {"xml", "empty", "malformed"}
Outcomes == Failures \cup Bodies

\* The records of batch b, each record identified by batch and position
RecordsOf(b, n) == [j \in 1..n |-> <<b, j>>]

\* The response body the source serves for unit b (0: the request without
\* token; b >= 1: resumptionToken b), as text of the given kind. A malformed
\* body is the batch in markup that is not well-formed; an empty body is "".
ServerBody(b, kind) ==
    IF kind \in {"xml", "malformed"}
    THEN [kind |-> kind,
          records |-> RecordsOf(b, batchSize[b]),
          token |-> IF b + 1 < chainLen THEN b + 1 ELSE NoToken]
    ELSE [kind |-> kind, records |-> <<>>, token |-> NoToken]

---------------------------------------------------------------------------
(* extract_records *)

\* Faulty variant: the parser recovers what it can from broken markup
extract_recordsRecovering(xml_content) ==
    <<xml_content.records, xml_content.token>>

extract_records(xml_content) ==
    IF xml_content.kind = "xml"
    THEN <<xml_content.records, xml_content.token>>
    ELSE <<<<>>, NoToken>>          \* except Exception: return [], None

---------------------------------------------------------------------------
(* fetch_records: one call is a record                                      *)
(*   unit         what is requested (0: first batch, t: token t)            *)
(*   retry_count  its argument                                              *)
(*   i            loop index of "for i in range(retry_count)"               *)
(*   pc           "get": about to request, "sleep": in asyncio.sleep,       *)
(*                "done": returned, "raised": left by an exception          *)
(*   result       the value returned                                        *)
(*   outcomes     history: the outcome of each request made                 *)
(*   sleeps       history: the wait_time of each asyncio.sleep              *)

NewCall(unit, retry_count) ==
    [unit |-> unit, retry_count |-> retry_count, i |-> 0,
     pc |-> IF retry_count > 0 THEN "get" ELSE "done",
     result |-> NoneResult, outcomes |-> <<>>, sleeps |-> <<>>]

\* Faulty variant: the cap is forgotten
wait_timeUncapped(i) == Pow2(i)

\* wait_time = min(2 ** i, 30)
wait_time(i) == Min(Pow2(i), BackoffCap)

\* Faulty variant: the last attempt is not told apart
MoreAttemptsAlways(c) == c.i < c.retry_count

\* "except Exception" sleeps and retries only when i < retry_count - 1
MoreAttempts(c) == c.i < c.retry_count - 1

\* the call goes to sleep for wait_time(i)
Backoff(c) ==
    [c EXCEPT !.pc = "sleep", !.sleeps = Append(@, wait_time(c.i))]

\* the call returns v
Return(c, v) == [c EXCEPT !.pc = "done", !.result = v]

\* Faulty variant: "except Exception" is missing, so the error of
\* raise_for_status and every other error leave the call
AttemptUncaught(c, outcome) ==
    LET d == [c EXCEPT !.outcomes = Append(@, outcome)] IN
    CASE outcome = "busy503" -> Backoff(d)
      [] outcome = "timeout" -> Backoff(d)
      [] outcome \in {"error", "http4xx"} -> [d EXCEPT !.pc = "raised"]
      [] OTHER -> Return(d, ServerBody(c.unit, outcome))

\* One request of the call and the handling of its outcome
Attempt(c, outcome) ==
    LET d == [c EXCEPT !.outcomes = Append(@, outcome)] IN
    CASE outcome = "busy503" -> Backoff(d)           \* status == 503
      [] outcome = "timeout" -> Backoff(d)           \* asyncio.TimeoutError
      [] outcome \in {"error", "http4xx"} ->         \* except Exception
            IF MoreAttempts(d) THEN Backoff(d) ELSE Return(d, NoneResult)
      [] OTHER -> Return(d, ServerBody(c.unit, outcome))

\* Faulty variant: range(retry_count + 1)
WakeOneMore(c) ==
    IF c.i + 1 <= c.retry_count
    THEN [c EXCEPT !.i = c.i + 1, !.pc = "get"]
    ELSE [c EXCEPT !.i = c.i + 1, !.pc = "done", !.result = NoneResult]

\* Faulty variant: the attempts are not counted
WakeStuck(c) == [c EXCEPT !.pc = "get"]

\* asyncio.sleep is over: next iteration of the for loop, or its end
Wake(c) ==
    IF c.i + 1 < c.retry_count
    THEN [c EXCEPT !.i = c.i + 1, !.pc = "get"]
    ELSE [c EXCEPT !.i = c.i + 1, !.pc = "done", !.result = NoneResult]

\* A call without its histories. They are kept for the first call, while
\* it runs; the calls of the tasks are followed through nreq, unit_result
\* and faulted alone
Release(c) == [c EXCEPT !.outcomes = <<>>, !.sleeps = <<>>]

\* unit_result once call c has taken a step
Settle(ur, c) ==
    IF c.pc = "done" THEN [ur EXCEPT ![c.unit] = c.result.kind]
    ELSE IF c.pc = "raised" THEN [ur EXCEPT ![c.unit] = "raised"]
    ELSE ur

---------------------------------------------------------------------------
(* The first call, awaited by harvest_records_async *)

FirstAttempt ==
    /\ hpc = "first"
    /\ first.pc = "get"
    /\ \E outcome \in Outcomes :
           /\ first' = Attempt(first, outcome)
           /\ faulted' = (faulted \/ outcome # "xml")
    /\ nreq' = [nreq EXCEPT ![0] = @ + 1]
    /\ unit_result' = Settle(unit_result, first')
    /\ UNCHANGED <<ncalls, chainLen, batchSize, max_concurrent, hpc, tasks,
                   resumption_tokens, all_records, returned, pub_csv,
                   drained, dropped>>
    /\ UNCHANGED facVars

FirstWake ==
    /\ hpc = "first"
    /\ first.pc = "sleep"
    /\ first' = Wake(first)
    /\ unit_result' = Settle(unit_result, first')
    /\ UNCHANGED <<ncalls, chainLen, batchSize, max_concurrent, hpc, tasks,
                   resumption_tokens, all_records, returned, pub_csv, nreq,
                   faulted, drained, dropped>>
    /\ UNCHANGED facVars

---------------------------------------------------------------------------
(* harvest_records_async                                                    *)
(*   hpc = "off"       the script is not run                                *)
(*         "first"     awaiting fetch_records for the first batch (l.102)   *)
(*         "loop"      at the test of "while resumption_tokens" (l.122)     *)
(*         "wait"      in asyncio.wait(..., FIRST_COMPLETED) (l.134)        *)
(*         "pause"     in asyncio.sleep(0.05) (l.150)                       *)
(*         "returned"  harvest_records_async has returned to main           *)
(*         "exit"      main has ended                                       *)
(*         "crashed"   an exception has left harvest_records_async and      *)
(*                     ended asyncio.run with a traceback                   *)

\* Faulty variant: the finished tasks are not taken off the list
IsPendingAll(c) == TRUE

\* A call is over: it returned, or an exception left it
IsDone(c) == c.pc \in {"done", "raised"}
IsPending(c) == ~IsDone(c)

\* "await fetch_records(...)", task.result() and asyncio.gather raise what
\* left the call
Raises(ts) == \E k \in 1..Len(ts) : ts[k].pc = "raised"

\* if not response_text: return []  --  else the first batch is extracted
HarvestFirst ==
    /\ hpc = "first"
    /\ IsDone(first)
    /\ IF Raises(<<first>>)
       THEN /\ hpc' = "crashed"
            /\ UNCHANGED <<all_records, resumption_tokens, returned>>
       ELSE IF ~Truthy(first.result)
       THEN /\ returned' = <<>>
            /\ hpc' = "returned"
            /\ UNCHANGED <<all_records, resumption_tokens>>
       ELSE LET ex == extract_records(first.result) IN
            /\ all_records' = all_records \o ex[1]
            /\ resumption_tokens' =
                   IF ex[2] # NoToken THEN <<ex[2]>> ELSE <<>>
            /\ hpc' = "loop"
            /\ UNCHANGED returned
    /\ first' = Release(first)
    /\ UNCHANGED <<ncalls, chainLen, batchSize, max_concurrent, tasks, pub_csv,
                   nreq,
                   unit_result, faulted, drained, dropped>>
    /\ UNCHANGED facVars

\* Faulty variant: the comparison with the ceiling is turned round
CanDispatchFlipped(ts, toks) == Len(ts) > max_concurrent /\ toks # <<>>

\* while len(tasks) < max_concurrent and resumption_tokens
CanDispatch(ts, toks) == Len(ts) < max_concurrent /\ toks # <<>>

\* Faulty variant: resumption_tokens[0] is read, not popped
RECURSIVE FillNoPop(_, _)
FillNoPop(ts, toks) ==
    IF CanDispatch(ts, toks)
    THEN FillNoPop(Append(ts, NewCall(Head(toks), DefaultRetryCount)), toks)
    ELSE <<ts, toks>>

\* The inner while loop: pop tokens and create their tasks.
\* The result is <<tasks, resumption_tokens>>.
RECURSIVE Fill(_, _)
Fill(ts, toks) ==
    IF CanDispatch(ts, toks)
    THEN Fill(Append(ts, NewCall(Head(toks), DefaultRetryCount)), Tail(toks))
    ELSE <<ts, toks>>

\* One turn of the outer loop up to its first suspension
Dispatch ==
    /\ hpc = "loop"
    /\ resumption_tokens # <<>>
    /\ LET f == Fill(tasks, resumption_tokens) IN
       /\ tasks' = f[1]
       /\ resumption_tokens' = f[2]
       /\ hpc' = IF f[1] # <<>> THEN "wait" ELSE "pause"
       /\ ncalls' = [u \in DOMAIN ncalls |->
                        ncalls[u]
                        + Cardinality({k \in Len(tasks) + 1..Len(f[1]) :
                                           f[1][k].unit = u})]
    /\ UNCHANGED <<chainLen, batchSize, max_concurrent, first, all_records,
                   returned, pub_csv, nreq, unit_result, faulted, drained,
                   dropped>>
    /\ UNCHANGED facVars

\* Faulty variant: asyncio.wait does not wait for a completion
WaitReadyAtOnce(ts) == TRUE

\* asyncio.wait(tasks, return_when=FIRST_COMPLETED) can return
WaitReady(ts) == \E k \in 1..Len(ts) : IsDone(ts[k])

\* Faulty variant: next_token is not appended
NextTokensForgotten(c) == <<>>

\* Faulty variant: the next token is made up from the one just fetched,
\* whatever the response was
NextTokensGuessed(c) == <<c.unit + 1>>

\* The token a finished task contributes to the pending queue
NextTokens(c) ==
    IF Truthy(c.result) /\ extract_records(c.result)[2] # NoToken
    THEN <<extract_records(c.result)[2]>>
    ELSE <<>>

\* The records a finished task contributes to the accumulator
BatchRecords(c) ==
    IF Truthy(c.result) THEN extract_records(c.result)[1] ELSE <<>>

\* "for task in done": the records of the finished tasks, in list order
RECURSIVE MergeRecords(_)
MergeRecords(ts) ==
    IF ts = <<>> THEN <<>>
    ELSE BatchRecords(Head(ts)) \o MergeRecords(Tail(ts))

\* "for task in done": the tokens of the finished tasks, in list order
RECURSIVE MergeTokens(_)
MergeTokens(ts) ==
    IF ts = <<>> THEN <<>>
    ELSE NextTokens(Head(ts)) \o MergeTokens(Tail(ts))

\* Faulty variant: a task without response empties the accumulator, as the first
\* batch's failure does ("return []")
AccumulateOrAbort(acc, done) ==
    IF \E k \in 1..Len(done) : ~Truthy(done[k].result)
    THEN <<>>
    ELSE acc \o MergeRecords(done)

\* all_records after "for task in done"
Accumulate(acc, done) == acc \o MergeRecords(done)

\* asyncio.wait returns; the finished tasks are merged; tasks = list(pending)
WaitDone ==
    /\ hpc = "wait"
    /\ WaitReady(tasks)
    /\ LET done == SelectSeq(tasks, IsDone)
           pending == SelectSeq(tasks, IsPending) IN
       IF Raises(done)
       THEN /\ hpc' = "crashed"
            /\ UNCHANGED <<all_records, resumption_tokens, tasks>>
       ELSE /\ all_records' = Accumulate(all_records, done)
            /\ resumption_tokens' = resumption_tokens \o MergeTokens(done)
            /\ tasks' = IF done # <<>> THEN pending ELSE tasks
            /\ hpc' = "pause"
    /\ UNCHANGED <<ncalls, chainLen, batchSize, max_concurrent, first,
                   returned,
                   pub_csv, nreq, unit_result, faulted, drained, dropped>>
    /\ UNCHANGED facVars

\* await asyncio.sleep(0.05) is over
Pause ==
    /\ hpc = "pause"
    /\ hpc' = "loop"
    /\ UNCHANGED <<ncalls, chainLen, batchSize, max_concurrent, first, tasks,
                   resumption_tokens, all_records, returned, pub_csv, nreq,
                   unit_result, faulted, drained, dropped>>
    /\ UNCHANGED facVars

\* The loop is left: "if tasks:" gathers what is still in flight, keeping
\* the records and discarding the tokens; then the accumulator is returned
LoopExit ==
    /\ hpc = "loop"
    /\ resumption_tokens = <<>>
    /\ \A k \in 1..Len(tasks) : IsDone(tasks[k])
    /\ IF Raises(tasks)
       THEN /\ hpc' = "crashed"
            /\ UNCHANGED <<all_records, drained, dropped, tasks, returned>>
       ELSE /\ all_records' = all_records \o MergeRecords(tasks)
            /\ drained' = drained + Len(tasks)
            /\ dropped' = dropped + Len(MergeTokens(tasks))
            /\ tasks' = <<>>
            /\ returned' = all_records'
            /\ hpc' = "returned"
    /\ UNCHANGED <<ncalls, chainLen, batchSize, max_concurrent, first,
                   resumption_tokens, pub_csv, nreq, unit_result, faulted>>
    /\ UNCHANGED facVars

\* Faulty variant: "if records:" is missing, the file is written in any case
MainSaveAlways ==
    /\ hpc = "returned"
    /\ pub_csv' = Len(returned)
    /\ hpc' = "exit"
    /\ UNCHANGED <<ncalls, chainLen, batchSize, max_concurrent, first, tasks,
                   resumption_tokens, all_records, returned, nreq,
                   unit_result, faulted, drained, dropped>>
    /\ UNCHANGED facVars

\* main: if records: save_to_csv(records)
MainSave ==
    /\ hpc = "returned"
    /\ pub_csv' = IF returned # <<>> THEN Len(returned) ELSE pub_csv
    /\ hpc' = "exit"
    /\ UNCHANGED <<ncalls, chainLen, batchSize, max_concurrent, first, tasks,
                   resumption_tokens, all_records, returned, nreq,
                   unit_result, faulted, drained, dropped>>
    /\ UNCHANGED facVars

\* harvest_records_async is suspended, so the event loop runs the tasks
Suspended ==
    \/ hpc \in {"wait", "pause"}
    \/ hpc = "loop" /\ resumption_tokens = <<>>       \* asyncio.gather

TaskAttempt(k) ==
    /\ Suspended
    /\ tasks[k].pc = "get"
    /\ \E outcome \in Outcomes :
           /\ tasks' = [tasks EXCEPT ![k] = Release(Attempt(@, outcome))]
           /\ faulted' = (faulted \/ outcome # "xml")
    /\ nreq' = [nreq EXCEPT ![tasks[k].unit] = @ + 1]
    /\ unit_result' = Settle(unit_result, tasks'[k])
    /\ UNCHANGED <<ncalls, chainLen, batchSize, max_concurrent, hpc, first,
                   resumption_tokens, all_records, returned, pub_csv,
                   drained, dropped>>
    /\ UNCHANGED facVars

TaskWake(k) ==
    /\ Suspended
    /\ tasks[k].pc = "sleep"
    /\ tasks' = [tasks EXCEPT ![k] = Release(Wake(@))]
    /\ unit_result' = Settle(unit_result, tasks'[k])
    /\ UNCHANGED <<ncalls, chainLen, batchSize, max_concurrent, hpc, first,
                   resumption_tokens, all_records, returned, pub_csv, nreq,
                   faulted, drained, dropped>>
    /\ UNCHANGED facVars

TaskStep == \E k \in 1..Len(tasks) : TaskAttempt(k) \/ TaskWake(k)

---------------------------------------------------------------------------
(* fetch_faculties.py                                                       *)
(*   fpc = "off"      the script is not run                                 *)
(*         "probe"    before get_total_pages (l.260)                        *)
(*         "branch"   at "if total_pages <= 0" (l.262)                      *)
(*         "collect"  in the as_completed loop (l.293)                      *)
(*         "exit"     the script has ended                                  *)
(* A future is a record                                                     *)
(*   state   "queued", "running", "finished", "collected" (handed out by    *)
(*           as_completed)                                                  *)
(*   raised  the worker function raised: future.result() raises             *)
(*   data    the list the worker function returned                          *)
(*   failed  history: the fetch or the processing of the page failed        *)

SetMax(S) == CHOOSE x \in S : \A y \in S : y <= x

\* What the request for page 1 can meet: an error of the request, a page
\* that cannot be parsed, or a page with or without pager and the page
\* numbers its pager links to
ProbeResponses ==
    {[kind |-> k, pager |-> FALSE, links |-> {}] :
        k \in {"request_error", "parse_error"}}
    \cup {[kind |-> "html", pager |-> FALSE, links |-> {}]}
    \cup {[kind |-> "html", pager |-> TRUE, links |-> L] :
              L \in SUBSET (0..MaxPages)}

\* Faulty variant: a failed request is taken for a site without pager
get_total_pagesAssumeOne(page1) ==
    IF page1.kind # "html" THEN 1
    ELSE IF ~page1.pager THEN 1
    ELSE IF page1.links = {} THEN 1
    ELSE SetMax(page1.links)

get_total_pages(page1) ==
    IF page1.kind # "html" THEN 0         \* both except clauses: return 0
    ELSE IF ~page1.pager THEN 1           \* "No pager found. Assuming 1 page."
    ELSE IF page1.links = {} THEN 1       \* no page number links
    ELSE SetMax(page1.links)

\* total_pages = get_total_pages(...)
Probe ==
    /\ fpc = "probe"
    /\ \E page1 \in ProbeResponses :
           /\ total_pages' = get_total_pages(page1)
           /\ probe' = page1.kind
    /\ page_gets' = [page_gets EXCEPT ![1] = @ + 1]     \* "&page=1"
    /\ fpc' = "branch"
    /\ UNCHANGED <<eta_divisor, pageSize, futures, all_publications_data,
                   completed_pages, pbar_n, fac_csv>>
    /\ UNCHANGED pubVars

\* if total_pages <= 0: print("Could not determine total pages ...")
NoPages ==
    /\ fpc = "branch"
    /\ total_pages <= 0
    /\ fpc' = "exit"
    /\ UNCHANGED <<page_gets, eta_divisor, pageSize, total_pages, futures,
                   all_publications_data,
                   completed_pages, pbar_n, fac_csv, probe>>
    /\ UNCHANGED pubVars

NewFuture ==
    [state |-> "queued", raised |-> FALSE, data |-> <<>>, failed |-> FALSE]

\* else: every page of range(1, total_pages + 1) is submitted to the pool
Submit ==
    /\ fpc = "branch"
    /\ total_pages > 0
    /\ futures' = [page_num \in 1..total_pages |-> NewFuture]
    /\ all_publications_data' = <<>>
    /\ completed_pages' = 0
    /\ fpc' = "collect"
    /\ page_gets' = [page_num \in 1..total_pages |->
                        IF page_num = 1 THEN page_gets[1] ELSE 0]
    /\ UNCHANGED <<eta_divisor, pageSize, total_pages, pbar_n, fac_csv, probe>>
    /\ UNCHANGED pubVars

Running == {p \in 1..Len(futures) : futures[p].state = "running"}

\* A worker thread of the pool takes the page
WorkerStart(page_num) ==
    /\ futures[page_num].state = "queued"
    /\ Cardinality(Running) < MAX_WORKERS
    /\ futures' = [futures EXCEPT ![page_num].state = "running"]
    /\ UNCHANGED <<page_gets, eta_divisor, pageSize, fpc, total_pages,
                   all_publications_data,
                   completed_pages, pbar_n, fac_csv, probe>>
    /\ UNCHANGED pubVars

\* What the fetch of a result page can meet
PageOutcomes == {"ok", "timeout", "request_error", "processing_error"}

\* Faulty variant: the except clauses are missing, the error reaches the future
fetch_and_parse_pageRaising(page_num, outcome) ==
    [state |-> "finished", raised |-> outcome # "ok",
     data |-> IF outcome = "ok" THEN RecordsOf(page_num, pageSize) ELSE <<>>,
     failed |-> outcome # "ok"]

\* The worker function: the page's records, or [] from each except clause
fetch_and_parse_page(page_num, outcome) ==
    [state |-> "finished", raised |-> FALSE,
     data |-> IF outcome = "ok" THEN RecordsOf(page_num, pageSize) ELSE <<>>,
     failed |-> outcome # "ok"]

\* Faulty variant: the worker appends its records to the shared list itself
\* and returns them as well
WorkerFinishMerging(page_num) ==
    /\ futures[page_num].state = "running"
    /\ \E outcome \in PageOutcomes :
           futures' = [futures EXCEPT
                           ![page_num] = fetch_and_parse_page(page_num, outcome)]
    /\ all_publications_data' =
           all_publications_data \o futures'[page_num].data
    /\ page_gets' = [page_gets EXCEPT ![page_num] = @ + 1]
    /\ UNCHANGED <<eta_divisor, pageSize, fpc, total_pages, completed_pages,
                   pbar_n, fac_csv, probe>>
    /\ UNCHANGED pubVars

\* The worker thread runs fetch_and_parse_page(page_num) to its return
WorkerFinish(page_num) ==
    /\ futures[page_num].state = "running"
    /\ \E outcome \in PageOutcomes :
           futures' = [futures EXCEPT
                           ![page_num] = fetch_and_parse_page(page_num, outcome)]
    /\ page_gets' = [page_gets EXCEPT ![page_num] = @ + 1]
    /\ UNCHANGED <<eta_divisor, pageSize, fpc, total_pages,
                   all_publications_data,
                   completed_pages, pbar_n, fac_csv, probe>>
    /\ UNCHANGED pubVars

\* Faulty variant: the accumulator is assigned, not extended
ExtendOverwrite(acc, page_data) == page_data

\* all_publications_data.extend(page_data)
Extend(acc, page_data) == acc \o page_data

\* Faulty variant: the last page is not told apart
ParallelismUnguarded(pages_remaining) == Min(MAX_WORKERS, pages_remaining)

\* The divisor of eta_seconds:
\* min(MAX_WORKERS, pages_remaining if pages_remaining > 0 else 1)
Parallelism(pages_remaining) ==
    Min(MAX_WORKERS, IF pages_remaining > 0 THEN pages_remaining ELSE 1)

\* One turn of "for future in as_completed(future_to_page)": the try body,
\* or the except clause when future.result() raises
Collect(page_num) ==
    /\ fpc = "collect"
    /\ futures[page_num].state = "finished"
    /\ futures' = [futures EXCEPT ![page_num].state = "collected"]
    /\ IF ~futures[page_num].raised
       THEN /\ all_publications_data' =
                   Extend(all_publications_data, futures[page_num].data)
            /\ completed_pages' = completed_pages + 1
            /\ eta_divisor' = Parallelism(total_pages - completed_pages')
       ELSE UNCHANGED <<all_publications_data, completed_pages, eta_divisor>>
    /\ pbar_n' = pbar_n + 1
    /\ UNCHANGED <<page_gets, pageSize, fpc, total_pages, fac_csv, probe>>
    /\ UNCHANGED pubVars

\* as_completed is exhausted: the DataFrame is built and written
Save ==
    /\ fpc = "collect"
    /\ \A p \in 1..Len(futures) : futures[p].state = "collected"
    /\ fac_csv' = Len(all_publications_data)
    /\ fpc' = "exit"
    /\ UNCHANGED <<page_gets, eta_divisor, pageSize, total_pages, futures,
                   all_publications_data,
                   completed_pages, pbar_n, probe>>
    /\ UNCHANGED pubVars

PageStep ==
    \E page_num \in 1..Len(futures) :
        WorkerStart(page_num) \/ WorkerFinish(page_num) \/ Collect(page_num)

---------------------------------------------------------------------------
(* Initial states *)

\* fetch_faculties.py is not the script run
FacIdle ==
    /\ pageSize = 0
    /\ fpc = "off"
    /\ total_pages = 0
    /\ futures = <<>>
    /\ all_publications_data = <<>>
    /\ completed_pages = 0
    /\ pbar_n = 0
    /\ fac_csv = -1
    /\ probe = ""
    /\ page_gets = [page_num \in 1..1 |-> 0]
    /\ eta_divisor = 0

\* Entry of harvest_records_async, up to its first await
PubStart(retry_count) ==
    /\ first = NewCall(0, retry_count)
    /\ tasks = <<>>
    /\ resumption_tokens = <<>>
    /\ all_records = <<>>
    /\ returned = <<>>
    /\ pub_csv = -1
    /\ nreq = [b \in 0..chainLen - 1 |-> 0]
    /\ ncalls = [b \in 0..chainLen - 1 |-> IF b = first.unit THEN 1 ELSE 0]
    /\ unit_result = Settle([b \in 0..chainLen - 1 |-> ""], first)
    /\ faulted = FALSE
    /\ drained = 0
    /\ dropped = 0

\* The batch sizes tried for a chain of n batches: the same size for every
\* batch, or sizes that change from batch to batch
BatchSizes(n) ==
    {[b \in 0..n - 1 |-> m] : m \in 0..MaxRecs}
    \cup {[b \in 0..n - 1 |-> (m + b) % (MaxRecs + 1)] : m \in 0..MaxRecs}

\* harvest_records_async(max_concurrent) against a chain of chainLen batches
InitChained ==
    /\ chainLen \in 1..MaxChain
    /\ batchSize \in BatchSizes(chainLen)
    /\ max_concurrent \in -1..MaxConcurrent
    /\ hpc = "first"
    /\ PubStart(DefaultRetryCount)
    /\ FacIdle

\* fetch_records alone, for every retry_count
InitRetry ==
    /\ chainLen = 1
    /\ batchSize \in [0..0 -> 0..MaxRecs]
    /\ max_concurrent = 1
    /\ hpc = "first"
    /\ \E retry_count \in 0..MaxRetry : PubStart(retry_count)
    /\ FacIdle

\* fetch_publications.py is not the script run
PubIdle ==
    /\ chainLen = 1
    /\ batchSize = [b \in 0..0 |-> 0]
    /\ max_concurrent = 1
    /\ hpc = "off"
    /\ PubStart(DefaultRetryCount)

\* The __main__ script of fetch_faculties.py against a site whose result
\* pages carry pageSize records each
InitFinite ==
    /\ pageSize \in 0..MaxRecs
    /\ fpc = "probe"
    /\ total_pages = 0
    /\ futures = <<>>
    /\ all_publications_data = <<>>
    /\ completed_pages = 0
    /\ pbar_n = 0
    /\ fac_csv = -1
    /\ probe = ""
    /\ page_gets = [page_num \in 1..1 |-> 0]
    /\ eta_divisor = 0
    /\ PubIdle

\* The as_completed loop alone, for page counts beyond MAX_WORKERS: every
\* page has been submitted and every worker has returned before the main
\* thread takes its first future
InitEta ==
    /\ pageSize = 0
    /\ fpc = "collect"
    /\ total_pages \in 1..MaxEtaPages
    /\ futures = [page_num \in 1..total_pages |->
                      fetch_and_parse_page(page_num, "ok")]
    /\ all_publications_data = <<>>
    /\ completed_pages = 0
    /\ pbar_n = 0
    /\ fac_csv = -1
    /\ probe = "html"
    /\ page_gets = [page_num \in 1..total_pages |->
                       IF page_num = 1 THEN 2 ELSE 1]
    /\ eta_divisor = 0
    /\ PubIdle

\* as_completed hands out the futures in the order of their pages
CollectInOrder ==
    /\ pbar_n < Len(futures)
    /\ Collect(pbar_n + 1)

NextEta == CollectInOrder \/ Save

NextRetry == FirstAttempt \/ FirstWake

NextFinite ==
    \/ Probe
    \/ NoPages
    \/ Submit
    \/ PageStep
    \/ Save

NextChained ==
    \/ FirstAttempt
    \/ FirstWake
    \/ HarvestFirst
    \/ Dispatch
    \/ WaitDone
    \/ Pause
    \/ LoopExit
    \/ MainSave
    \/ TaskStep

SpecRetry == InitRetry /\ [][NextRetry]_vars

SpecChained == InitChained /\ [][NextChained]_vars

\* The event loop runs every ready coroutine, and every request ends within
\* its timeout: no step that is possible is postponed for ever
FairChained == SpecChained /\ WF_vars(NextChained)

SpecFinite == InitFinite /\ [][NextFinite]_vars

\* Every pool thread runs, and requests.get ends within its timeout
FairFinite == SpecFinite /\ WF_vars(NextFinite)

SpecEta == InitEta /\ [][NextEta]_vars

\* Either script is run
Init == InitChained \/ InitFinite

Next == NextChained \/ NextFinite

Spec == Init /\ [][Next]_vars

\* The script that is run is scheduled as in FairChained and FairFinite
FairSpec == Spec /\ WF_vars(Next)

---------------------------------------------------------------------------
(* Properties of the chained harvester *)

Terminated == hpc \in {"returned", "exit"}

RECURSIVE SumSizes(_)
SumSizes(n) == IF n = 0 THEN 0 ELSE SumSizes(n - 1) + batchSize[n - 1]

\* The records of batches 0..n-1 in chain order
RECURSIVE ChainRecords(_)
ChainRecords(n) ==
    IF n = 0 THEN <<>>
    ELSE ChainRecords(n - 1) \o RecordsOf(n - 1, batchSize[n - 1])

Units == 0..chainLen - 1

\* Some unit's fetch ended without a well-formed body
Lost == \E b \in Units : unit_result[b] \notin {"", "xml"}

AllFetched == \A b \in Units : unit_result[b] = "xml"

\* C1: with a ceiling >= 1 and no failing request, harvest_records_async
\* terminates, and when it has it has made exactly one request per batch of
\* the chain and returns as many records as the batches hold together.
C1_ChainNoFailures ==
    /\ <>(max_concurrent < 1 \/ faulted \/ Terminated)
    /\ [](Terminated /\ ~faulted =>
            /\ \A b \in Units : nreq[b] = 1
            /\ Len(returned) = SumSizes(chainLen)
            /\ returned = ChainRecords(chainLen))

C1_Witness ==
    /\ hpc = "exit"
    /\ ~faulted
    /\ chainLen >= 3
    /\ Len(returned) >= 3
    /\ \A b \in Units : nreq[b] = 1

\* C2: with a ceiling c >= 1 the number of tasks in flight never exceeds
\* c, and unless the fetch of a unit ends without a well-formed body the
\* engine comes to fetch every batch of the chain and terminates.
C2_CeilingAndDrain ==
    /\ [](max_concurrent >= 1 => Len(tasks) <= max_concurrent)
    /\ <>(max_concurrent < 1 \/ Lost \/ (Terminated /\ AllFetched))

C2_Witness ==
    /\ Terminated
    /\ AllFetched
    /\ chainLen >= 3
    /\ max_concurrent = 1
    /\ faulted

\* The outcomes of a call are k transient failures and then a body
FailsThenSucceeds(c) ==
    /\ c.outcomes # <<>>
    /\ c.outcomes[Len(c.outcomes)] \in Bodies
    /\ \A j \in 1..Len(c.outcomes) - 1 : c.outcomes[j] \in Transient

\* C3: a call whose request fails transiently k < retry_count times and
\* then succeeds returns the body, and the sleeps it made are min(2^i, 30)
\* for i = 0..k-1.
C3_RetrySuccess ==
    FailsThenSucceeds(first) =>
        LET k == Len(first.outcomes) - 1 IN
        /\ k < first.retry_count
        /\ first.pc = "done"
        /\ first.result # NoneResult
        /\ first.result = ServerBody(0, first.outcomes[k + 1])
        /\ first.sleeps = [j \in 1..k |-> Min(Pow2(j - 1), 30)]

C3_Witness ==
    /\ FailsThenSucceeds(first)
    /\ Len(first.sleeps) >= 6
    /\ first.sleeps[6] = 30
    /\ {first.outcomes[j] : j \in 1..3} = Transient

AllTransient(c) == \A j \in 1..Len(c.outcomes) : c.outcomes[j] \in Transient

\* C4: a call all of whose requests fail transiently makes exactly
\* retry_count requests and returns None.
C4_RetryExhaustion ==
    /\ nreq[0] = Len(first.outcomes)
    /\ AllTransient(first) =>
          /\ Len(first.outcomes) <= first.retry_count
          /\ first.pc = "done" =>
                /\ Len(first.outcomes) = first.retry_count
                /\ first.result = NoneResult

C4_Witness ==
    /\ first.pc = "done"
    /\ first.retry_count >= 3
    /\ AllTransient(first)
    /\ {first.outcomes[j] : j \in 1..3} = Transient

TokenGaveUp == \E t \in Units : t >= 1 /\ unit_result[t] = "none"

\* C9: when the fetch of a token gives up, harvest_records_async still
\* returns, and what it returns are the records of the batches fetched
\* before; main writes them.
C9_PartialFailure ==
    /\ TokenGaveUp ~> Terminated
    /\ [](Terminated /\ TokenGaveUp =>
            \E t \in Units :
                /\ unit_result[t] = "none"
                /\ \A b \in 0..t - 1 : unit_result[b] = "xml"
                /\ returned = ChainRecords(t))
    /\ [](hpc = "exit" /\ TokenGaveUp /\ returned # <<>> =>
            pub_csv = Len(returned))

C9_Witness ==
    /\ hpc = "exit"
    /\ unit_result[0] = "xml"
    /\ chainLen >= 3
    /\ unit_result[2] = "none"
    /\ Len(returned) >= 2
    /\ pub_csv = Len(returned)

\* C10: the loop is left only with the pending queue empty and no task in
\* flight: the gather after the loop never consumes a task, and no token
\* extracted from a response is discarded.
C10_LoopExit ==
    /\ hpc = "loop" /\ resumption_tokens = <<>> => tasks = <<>>
    /\ Terminated => resumption_tokens = <<>> /\ tasks = <<>>
    /\ drained = 0
    /\ dropped = 0

C10_Witness ==
    /\ hpc = "returned"
    /\ chainLen >= 3
    /\ AllFetched
    /\ nreq[2] >= 2

---------------------------------------------------------------------------
(* Properties of the finite harvester *)

Pages == 1..Len(futures)

FailedPages == {p \in Pages : futures[p].failed}

AllCollected == \A p \in Pages : futures[p].state = "collected"

\* The script keeps no counter of successes and none of failures. What it
\* counts: completed_pages, the turns of the loop that went through the try
\* body, and pbar.n, all its turns; their difference is the number of turns
\* that ended in the except clause.
succeeded == completed_pages
failed == pbar_n - completed_pages

ProbeFailed == probe \in {"request_error", "parse_error"}

C7_NoFailures ==
    fpc = "exit" /\ total_pages >= 1 /\ FailedPages = {} =>
        /\ Len(all_publications_data) = total_pages * pageSize
        /\ succeeded = total_pages
        /\ failed = 0

C7_Witness ==
    /\ fpc = "exit"
    /\ total_pages >= 3
    /\ pageSize >= 1
    /\ FailedPages = {}
    /\ all_publications_data[1][1] = 3
    /\ Len(all_publications_data) = total_pages * pageSize

\* C8: when the request or the parsing of get_total_pages fails, the
\* script ends, and no page is ever submitted to the pool, nothing is
\* accumulated and nothing is written.
C8_ProbeFailureFatal ==
    /\ ProbeFailed ~> fpc = "exit"
    /\ [](ProbeFailed =>
            /\ total_pages = 0
            /\ fpc \in {"branch", "exit"}
            /\ futures = <<>>
            /\ all_publications_data = <<>>
            /\ completed_pages = 0
            /\ pbar_n = 0
            /\ fac_csv = -1)

C8_Witness ==
    /\ ProbeFailed
    /\ fpc = "exit"

---------------------------------------------------------------------------
(* Ordering and repetition of the requests *)

\* The units of the tasks in flight and the tokens of the pending queue
InFlight == {tasks[k].unit : k \in 1..Len(tasks)}
Queued == {resumption_tokens[k] : k \in 1..Len(resumption_tokens)}

\* The response of unit u has been handed to extract_records: the first
\* batch once harvest_records_async has gone past its await, a token's batch
\* once "for task in done" has taken its task off the list
Parsed(u) ==
    /\ u \in Units
    /\ unit_result[u] = "xml"
    /\ IF u = 0 THEN hpc # "first" ELSE u \notin InFlight /\ ncalls[u] >= 1

\* Token t is the one extract_records found in the response of its parent
Extracted(t) ==
    /\ t \in Units \ {0}
    /\ Parsed(t - 1)

\* C11: a token is in the pending queue, has a task, or has been requested
\* only if the response of its parent batch was completed and parsed by
\* extract_records before, and that response carried the token.
C11_CausalOrder ==
    /\ \A t \in Queued \cup InFlight : Extracted(t)
    /\ \A t \in Units \ {0} : ncalls[t] > 0 \/ nreq[t] > 0 => Extracted(t)

C11_Witness ==
    /\ 2 \in InFlight
    /\ nreq[2] >= 1
    /\ Parsed(1)

\* C12: no unit causes more requests than fetch_records makes attempts:
\* at most retry_count = 3 for the first batch and for every token, each
\* being fetched by one call only. fetch_and_parse_page makes one request
\* for its page and is called once for it; counting the request of
\* get_total_pages, page 1 is requested twice, which is within the bound.
C12_BoundedAttempts ==
    /\ \A u \in Units : nreq[u] <= DefaultRetryCount /\ ncalls[u] <= 1
    /\ \A p \in DOMAIN page_gets :
           /\ page_gets[p] <= (IF p = 1 THEN 2 ELSE 1)
           /\ page_gets[p] <= DefaultRetryCount

C12_Witness ==
    /\ chainLen >= 2
    /\ nreq[1] = DefaultRetryCount
    /\ unit_result[1] = "none"
    /\ hpc = "exit"

\* No element occurs twice in the sequence
NoRepeat(seq) ==
    \A j, k \in 1..Len(seq) : j # k => seq[j] # seq[k]

---------------------------------------------------------------------------
(* Backoff of fetch_records *)

\* C14: fetch_records sleeps only when another attempt follows: it is never
\* asleep after its last attempt, and when it has returned, every sleep it
\* took was followed by a request, so that it slept less often than it
\* requested.
C14_SleepThenRetry ==
    /\ first.pc = "sleep" => first.i + 1 < first.retry_count
    /\ first.pc = "done" /\ first.outcomes # <<>> =>
           Len(first.sleeps) < Len(first.outcomes)

---------------------------------------------------------------------------
(* Faults of a unit and the orchestration *)

Last(seq) == seq[Len(seq)]

\* C15: whatever a request meets, the unit function returns instead of
\* raising: fetch_records returns None after a failure it gives up on,
\* extract_records returns no record and no token for what it cannot parse,
\* fetch_and_parse_page returns []. No call and no future ends with an
\* exception, no turn of the as_completed loop ends in its except clause,
\* harvest_records_async is not left by an exception, and after a fault
\* either script still runs to its normal end.
C15_FaultsContained ==
    /\ [](/\ hpc # "crashed"
          /\ ~Raises(<<first>>)
          /\ ~Raises(tasks)
          /\ \A u \in Units : unit_result[u] # "raised")
    /\ [](hpc = "first" /\ first.pc = "done" /\ first.outcomes # <<>>
              /\ Last(first.outcomes) \in Failures =>
            first.result = NoneResult)
    /\ [](\A kind \in Bodies \ {"xml"} :
              extract_records(ServerBody(0, kind)) = <<<<>>, NoToken>>)
    /\ [](\A p \in Pages :
              /\ ~futures[p].raised
              /\ futures[p].failed => futures[p].data = <<>>)
    /\ [](failed = 0)
    /\ (faulted /\ max_concurrent >= 1) ~> (hpc = "exit")
    /\ (FailedPages # {}) ~> (fpc = "exit")

C15_Witness ==
    /\ hpc = "exit"
    /\ chainLen = 3
    /\ unit_result[0] = "xml"
    /\ unit_result[1] = "xml"
    /\ unit_result[2] = "none"
    /\ nreq[2] = DefaultRetryCount
    /\ returned = ChainRecords(2)

\* The units that were answered by a body that is not well-formed
Malformed == {t \in Units : unit_result[t] = "malformed"}

\* C16: extract_records returns no record and no token for a malformed
\* body, without an exception; once unit t has been answered by a malformed
\* body the accumulator holds the records of the batches before t and keeps
\* them, no token after t is fetched, and the run ends normally, returning
\* those records.
C16_ParseFailureSoft ==
    /\ [](\A b \in Units :
              extract_records(ServerBody(b, "malformed")) = <<<<>>, NoToken>>)
    /\ [](hpc # "crashed")
    /\ [](\A t \in Malformed :
              /\ all_records = ChainRecords(t)
              /\ \A u \in Units : u > t => ncalls[u] = 0 /\ u \notin Queued
              /\ Terminated => returned = ChainRecords(t))
    /\ (Malformed # {}) ~> (hpc = "exit")

C16_Witness ==
    /\ hpc = "exit"
    /\ chainLen = 3
    /\ batchSize[0] >= 1
    /\ batchSize[1] >= 1
    /\ Malformed = {1}
    /\ returned = ChainRecords(1)
    /\ pub_csv = Len(returned)

---------------------------------------------------------------------------
(* The accumulator of the finite script *)

\* How often x occurs in the sequence
Occurrences(seq, x) == Cardinality({k \in 1..Len(seq) : seq[k] = x})

\* The step is one turn of the as_completed loop for page p: the main
\* thread takes the finished future and appends what it returned
MergeOf(p) ==
    /\ fpc = "collect"
    /\ futures[p].state = "finished"
    /\ futures' = [futures EXCEPT ![p].state = "collected"]
    /\ all_publications_data' = all_publications_data \o futures[p].data
    /\ completed_pages' = completed_pages + 1

\* C17: all_publications_data and completed_pages change only in a turn of
\* the as_completed loop, which merges the result of one finished future;
\* no step of a worker thread changes them. Whatever the order in which
\* the workers finish, the records of a page are in the accumulator once
\* when its future has been collected and not at all before, so in the end
\* no batch is missing or present twice.
C17_SingleWriter ==
    /\ [][all_publications_data' # all_publications_data
              \/ completed_pages' # completed_pages =>
            \E p \in Pages : MergeOf(p)]_vars
    /\ [](\A p \in Pages : \A j \in 1..pageSize :
              Occurrences(all_publications_data, <<p, j>>) =
                  IF futures[p].state = "collected" /\ ~futures[p].failed
                  THEN 1 ELSE 0)
    /\ [](Len(all_publications_data) =
              pageSize * Cardinality({p \in Pages :
                                          /\ futures[p].state = "collected"
                                          /\ ~futures[p].failed}))
    /\ [](completed_pages =
              Cardinality({p \in Pages : futures[p].state = "collected"}))

C17_Witness ==
    /\ fpc = "exit"
    /\ total_pages = 3
    /\ pageSize >= 1
    /\ FailedPages = {}
    /\ all_publications_data[1][1] = 2
    /\ all_publications_data[Len(all_publications_data)][1] = 1
    /\ completed_pages = 3

---------------------------------------------------------------------------
(* The ETA of the finite script *)

Max(a, b) == IF a >= b THEN a ELSE b

\* C18: the divisor of eta_seconds is an integer from 1 to MAX_WORKERS
\* for every number of remaining pages, 0 included; at every completion,
\* the last one included, the divisor used is in that range and is not
\* more than the pages that remain (1 when none remains). The ETA is
\* computed only when every page has been submitted, so it decides nothing
\* about what is dispatched.
C18_EtaDivisor ==
    /\ \A pages_remaining \in 0..MaxEtaPages :
           Parallelism(pages_remaining) \in 1..MAX_WORKERS
    /\ completed_pages \in 0..total_pages
    /\ completed_pages >= 1 =>
           /\ eta_divisor \in 1..MAX_WORKERS
           /\ eta_divisor <= Max(1, total_pages - completed_pages)
           /\ total_pages - completed_pages >= MAX_WORKERS =>
                  eta_divisor = MAX_WORKERS
    /\ eta_divisor # 0 => Len(futures) = total_pages

C18_Witness ==
    /\ fpc = "exit"
    /\ total_pages >= MAX_WORKERS + 2
    /\ completed_pages = total_pages
    /\ eta_divisor = 1

---------------------------------------------------------------------------
(* Concurrency that the chain allows, and termination *)

\* The calls of fetch_records that have not returned
Active == {k \in 1..Len(tasks) : IsPending(tasks[k])}

\* C19: the pending tokens and the tasks together are never more than one,
\* whatever the ceiling: a token is only known when the task of its parent
\* is over, and that task is taken off the list when the token is queued.
\* So at most one fetch_records call for a token is active at a time.
C19_OneAtATime ==
    /\ Len(resumption_tokens) + Len(tasks) <= 1
    /\ Cardinality(Active) <= 1
    /\ \A t, u \in Units :
           t < u /\ ncalls[u] > 0 => unit_result[t] # "" /\ t \notin InFlight

C19_Witness ==
    /\ max_concurrent = MaxConcurrent
    /\ max_concurrent >= 2
    /\ resumption_tokens = <<>>
    /\ Len(tasks) = 1
    /\ tasks[1].unit = 2
    /\ tasks[1].pc = "sleep"

\* C20: harvest_records_async returns for every value of max_concurrent,
\* given a finite chain and requests that are always answered in the end.
C20_TerminatesForEveryCeiling == <>Terminated

---------------------------------------------------------------------------
(* The first batch *)

\* fetch_records gave up on the first batch, or the source answered it by
\* an empty body
FirstBatchMissing == unit_result[0] \in {"none", "empty"}

\* C21: when the first call returns None or "", harvest_records_async
\* returns [] at once: the dispatch loop is not entered, no token is queued,
\* no task is created and no request is made for a token; main then ends
\* without writing the file. This is so for every max_concurrent.
C21_FirstBatchMissing ==
    /\ [](FirstBatchMissing =>
            /\ hpc \in {"first", "returned", "exit"}
            /\ tasks = <<>>
            /\ resumption_tokens = <<>>
            /\ all_records = <<>>
            /\ \A u \in Units : u >= 1 => ncalls[u] = 0 /\ nreq[u] = 0
            /\ Terminated => returned = <<>>
            /\ pub_csv = -1)
    /\ FirstBatchMissing ~> (hpc = "exit")

C21_Witness ==
    /\ hpc = "exit"
    /\ chainLen >= 2
    /\ batchSize[0] >= 1
    /\ unit_result[0] = "none"
    /\ nreq[0] = DefaultRetryCount
    /\ max_concurrent <= 0
    /\ pub_csv = -1

=============================================================================
